---- MODULE Spec2Model ----
(***************************************************************************)
(* MultiArray<T, D, Container>: a D-dimensional array stored row-major in  *)
(* one flat container.  The model follows src/multiarr.h (range fill       *)
(* through &d_data[begin], &d_data[end]) and src/unnamed/part_001 (range   *)
(* fill through d_data.begin() + offset); the two are run side by side on  *)
(* the same calls.  Offsets and coordinates are 0-based as in the source;  *)
(* TLA+ sequences are 1-based, so d_data[off + 1] is the element at        *)
(* offset off and d_dimensions[k + 1] is the size of axis k.               *)
(***************************************************************************)
EXTENDS Integers, Sequences, FiniteSets, TLC

\* ------------------------------------------------------------- bounds
MaxD == 3          \* largest number of dimensions D
MaxDim == 4        \* largest size of one axis
MaxTotal == 4      \* largest element count of a modelled array
MaxShape == 18     \* largest number of bound positions, the product of (size + 1)
W == 4             \* modelled width of std::size_t in bits
MaxPush == 1       \* largest number of elements pushed through data()
RevMaxD == 2       \* largest D of the arrays given a reversed range
RevMaxShape == 10  \* largest number of bound positions of those arrays
IdxMaxDim == 3     \* largest size of one axis of the arrays only indexed

Mod == 2 ^ W

\* The element type T and the value T() that Container<T>(n) puts in each slot.
T == {0, 1}
Default == 0

VARIABLES
    ctorArgs,      \* the arguments the constructor was called with
    d_dimensions,  \* std::size_t d_dimensions[D]
    d_data,        \* Container<T> d_data of multiarr.h (index-based range fill)
    d_dataIt,      \* std::vector<T> d_data of part_001 (iterator-based range fill)
    status,        \* of the program using multiarr.h: "running", "aborted" (a checked
                   \* container access stopped it) or "corrupt" (it wrote outside the store)
    statusIt,      \* the same, of the program using part_001
    last           \* the last call: its kind, arguments, the store before it, what it did

vars == <<ctorArgs, d_dimensions, d_data, d_dataIt, status, statusIt, last>>

\* ------------------------------------------------------------ helpers
RECURSIVE SeqProd(_)
SeqProd(s) == IF s = <<>> THEN 1 ELSE Head(s) * SeqProd(Tail(s))

RECURSIVE SeqShape(_)
SeqShape(s) == IF s = <<>> THEN 1 ELSE (Head(s) + 1) * SeqShape(Tail(s))

\* ---------------------------------------------------- product, indexMap
\* product(head, tail...): head * (sizeof...(Tail) == 0 ? 1 : product(tail...))
RECURSIVE product(_)
product(args) ==
    (Head(args) * (IF Len(Tail(args)) = 0 THEN 1 ELSE product(Tail(args)))) % Mod

\* The loop of indexMap: for (idx = from; idx != D; ++idx) fac *= d_dimensions[idx]
RECURSIVE facLoop(_, _, _)
facLoop(dims, idx, fac) ==
    IF idx = Len(dims) THEN fac
    ELSE facLoop(dims, idx + 1, (fac * dims[idx + 1]) % Mod)

\* Mutant: the factor is left at 1, the sizes to the right are not multiplied in.
RECURSIVE indexMapNoFactor(_, _)
indexMapNoFactor(dims, args) ==
    LET count == Len(args) - 1
    IN (Head(args)
          + (IF count = 0 THEN 0 ELSE indexMapNoFactor(dims, Tail(args)))) % Mod

\* Mutant: column-major, the factor is the product of the sizes to the left.
RECURSIVE indexMapColMajor(_, _)
indexMapColMajor(dims, args) ==
    LET count == Len(args) - 1
        k == Len(dims) - count
        fac == SeqProd(SubSeq(dims, 1, k - 1)) % Mod
    IN (Head(args) * fac
          + (IF count = 0 THEN 0 ELSE indexMapColMajor(dims, Tail(args)))) % Mod

\* indexMap(head, tail...): count = sizeof...(tail); fac = product of
\* d_dimensions[D - count .. D - 1]; head * fac + (count == 0 ? 0 : indexMap(tail...))
RECURSIVE indexMap(_, _)
indexMap(dims, args) ==
    LET count == Len(args) - 1
        fac == facLoop(dims, Len(dims) - count, 1)
    IN (Head(args) * fac
          + (IF count = 0 THEN 0 ELSE indexMap(dims, Tail(args)))) % Mod

\* index(args...) of the object
index(c) == indexMap(d_dimensions, c)

\* operator()(args...) const: the element read at a coordinate
At(data, c) == data[index(c) + 1]

\* ------------------------------------------------------- input domains
CoordChoices(d) == 0 .. (d - 1)
ValidRangeChoices(d) == {p \in (0 .. d) \X (0 .. d) : p[1] <= p[2]}
AnyRangeChoices(d) == (0 .. d) \X (0 .. d)

Choices(what, d) ==
    IF what = "coord" THEN CoordChoices(d)
    ELSE IF what = "valid" THEN ValidRangeChoices(d)
    ELSE AnyRangeChoices(d)

\* all sequences s of length Len(dims) with s[k] \in Choices(what, dims[k])
RECURSIVE Tuples(_, _)
Tuples(dims, what) ==
    IF dims = <<>> THEN {<<>>}
    ELSE {<<h>> \o t : h \in Choices(what, Head(dims)), t \in Tuples(Tail(dims), what)}

\* coordinate tuples with 0 <= i_k < dimensions[k]
ValidCoords(dims) == Tuples(dims, "coord")
\* range tables with 0 <= begin_k <= end_k <= dimensions[k]
ValidRanges(dims) == Tuples(dims, "valid")
\* range tables with all bounds in [0, dimensions[k]] and begin_k > end_k somewhere
ReversedRanges(dims) ==
    {r \in Tuples(dims, "any") : \E k \in 1 .. Len(dims) : r[k][1] > r[k][2]}

\* Constructor arguments of the modelled arrays.  The element count is one that
\* std::size_t holds: product() does not wrap.
DimVectors ==
    {s \in UNION {[1 .. n -> 0 .. MaxDim] : n \in 1 .. MaxD} :
        /\ SeqProd(s) <= MaxTotal
        /\ SeqProd(s) < Mod
        /\ SeqShape(s) <= MaxShape}

\* those given a reversed range
RevDimVectors == {s \in DimVectors : Len(s) <= RevMaxD /\ SeqShape(s) <= RevMaxShape}

\* those that are only indexed, never filled: larger ones
IdxDimVectors ==
    {s \in UNION {[1 .. n -> 0 .. IdxMaxDim] : n \in 1 .. MaxD} : SeqProd(s) < Mod}

NoCall ==
    [kind |-> "none", coord |-> <<>>, ranges |-> <<>>, val |-> Default, off |-> 0,
     old |-> <<>>, fills |-> <<>>, fillsIt |-> <<>>, nfills |-> 0, nfillsIt |-> 0,
     indexed |-> {}, oob |-> FALSE, oobIt |-> FALSE]

\* ---------------------------------------------------------- construction
\* MultiArray(args...): d_data(product(args...)), d_dimensions{args...}
Construct(args) ==
    /\ ctorArgs = args
    /\ d_dimensions = args
    /\ d_data = [i \in 1 .. product(args) |-> Default]
    /\ d_dataIt = [i \in 1 .. product(args) |-> Default]

Constructed(argSet) ==
    /\ \E args \in argSet : Construct(args)
    /\ status = "running"
    /\ statusIt = "running"
    /\ last = NoCall

Init == Constructed(DimVectors)
InitRev == Constructed(RevDimVectors)
InitIdx == Constructed(IdxDimVectors)

\* ------------------------------------------------------------ range fill
\* std::fill(first, last, val) over the offsets [b, e) that lie in the store
FillRange(data, b, e, val) ==
    [i \in 1 .. Len(data) |-> IF b < i /\ i <= e THEN val ELSE data[i]]

\* The state one range assignment works on: the store, whether the program still
\* runs, the bulk fills done so far as <<begin, end>> (kept when log is set) and
\* their number, the offsets handed to operator[], and whether an offset outside
\* the store was touched.
Start(data, log) ==
    [data |-> data, status |-> "running", log |-> log, fills |-> <<>>, nfills |-> 0,
     indexed |-> {}, oob |-> FALSE]

\* What the build makes of undefined behaviour:
\*   chk: the container checks its accesses (a hardened or debug standard library
\*        stops the program on d_data[k] with k >= size(), or on an iterator moved
\*        past end()); otherwise an access is plain pointer arithmetic.
\*   rev: what std::fill(first, last, val) does when last is before first: "noop" (it
\*        counts last - first <= 0 elements) or "run" (it loops while first != last and
\*        runs off the end of the store).
Builds == [chk : BOOLEAN, rev : {"noop", "run"}]

\* std::fill(first, last, val) between two positions of the store of st
BulkFill(st, begin, end, val, outside, build) ==
    LET n == Len(st.data)
        logged == [st EXCEPT !.fills = IF st.log THEN Append(@, <<begin, end>>) ELSE @,
                             !.nfills = @ + 1]
    IN IF begin <= end
       THEN [logged EXCEPT !.data = FillRange(st.data, begin, end, val),
                           !.status = IF begin < end /\ end > n THEN "corrupt"
                                      ELSE "running",
                           !.oob = st.oob \/ outside]
       ELSE IF build.rev = "noop"
       THEN [logged EXCEPT !.oob = st.oob \/ outside]
       ELSE [logged EXCEPT !.data = FillRange(st.data, begin, n, val),
                           !.status = "corrupt",
                           !.oob = TRUE]

\* Mutant: the end of the fill is begin + ranges[D - 1][1], the length is not taken.
AssignLastNoLength(st, ranges, val, indices, build) ==
    LET D == Len(d_dimensions)
        n == Len(st.data)
        begin == indexMap(d_dimensions, Append(indices, ranges[D][1]))
        end == (begin + ranges[D][2]) % Mod
        outside == begin >= n \/ end >= n
    IN IF outside /\ build.chk
       THEN [st EXCEPT !.status = "aborted", !.indexed = @ \cup {begin, end}, !.oob = TRUE]
       ELSE BulkFill([st EXCEPT !.indexed = @ \cup {begin, end}],
                     begin, end, val, outside, build)

\* Assign<D - 1>::assign of multiarr.h:
\*   begin = indexMap(indices..., ranges[D-1][0]);
\*   end = begin + (ranges[D-1][1] - ranges[D-1][0]);
\*   std::fill(&d_data[begin], &d_data[end], val)
\* d_data[k] with k >= size() is undefined: a checking container stops the program
\* (the two arguments are evaluated in an unspecified order, both are recorded).
AssignLast(st, ranges, val, indices, build) ==
    LET D == Len(d_dimensions)
        n == Len(st.data)
        begin == indexMap(d_dimensions, Append(indices, ranges[D][1]))
        end == (begin + ((ranges[D][2] - ranges[D][1]) % Mod)) % Mod
        outside == begin >= n \/ end >= n
    IN IF outside /\ build.chk
       THEN [st EXCEPT !.status = "aborted", !.indexed = @ \cup {begin, end}, !.oob = TRUE]
       ELSE BulkFill([st EXCEPT !.indexed = @ \cup {begin, end}],
                     begin, end, val, outside, build)

\* Assign<MaxLevel, MaxLevel>::assign of part_001:
\*   begin = d_data.begin() + indexMap(indices..., ranges[D-1][0]);
\*   end = begin + (ranges[D-1][1] - ranges[D-1][0]);
\*   std::fill(begin, end, val)
\* An iterator may be end() but not beyond it.
AssignLastIt(st, ranges, val, indices, build) ==
    LET D == Len(d_dimensions)
        n == Len(st.data)
        begin == indexMap(d_dimensions, Append(indices, ranges[D][1]))
        end == (begin + ((ranges[D][2] - ranges[D][1]) % Mod)) % Mod
        outside == begin > n \/ end > n
    IN IF outside /\ build.chk
       THEN [st EXCEPT !.status = "aborted", !.oob = TRUE]
       ELSE BulkFill(st, begin, end, val, outside, build)

\* The innermost level of the variant at hand
Innermost(st, ranges, val, indices, build, variant) ==
    IF variant = "index" THEN AssignLast(st, ranges, val, indices, build)
    ELSE AssignLastIt(st, ranges, val, indices, build)

\* Mutant: the loop of a level runs while i < ranges[Level][1].
LoopDoneLess(i, stop) == ~(i < stop)

\* The loop test of a level, i != ranges[Level][1], negated
LoopDone(i, stop) == i = stop

\* Mutant: the loop of a level starts one index late.
LoopFirstLate(ranges, Level) ==
    IF ranges[Level + 1][1] = ranges[Level + 1][2] THEN ranges[Level + 1][1]
    ELSE (ranges[Level + 1][1] + 1) % Mod

\* The first index of the loop of a level, ranges[Level][0]
LoopFirst(ranges, Level) == ranges[Level + 1][1]

\* Assign<Level>::assign:
\*   for (i = ranges[Level][0]; i != ranges[Level][1]; ++i)
\*       Assign<Level + 1>::assign(self, ranges, val, indices..., i);
\* and its specialisation for Level = D - 1.  A stopped program runs no further.
RECURSIVE Assign(_, _, _, _, _, _, _)
RECURSIVE AssignLoop(_, _, _, _, _, _, _, _)
Assign(st, ranges, val, Level, indices, build, variant) ==
    IF Level = Len(d_dimensions) - 1
    THEN Innermost(st, ranges, val, indices, build, variant)
    ELSE AssignLoop(st, ranges, val, Level, indices, build, variant,
                    LoopFirst(ranges, Level))

AssignLoop(st, ranges, val, Level, indices, build, variant, i) ==
    IF st.status # "running" \/ LoopDone(i, ranges[Level + 1][2]) THEN st
    ELSE AssignLoop(
             Assign(st, ranges, val, Level + 1, Append(indices, i), build, variant),
             ranges, val, Level, indices, build, variant, (i + 1) % Mod)

\* ------------------------------------------------------------ operations
\* A run is any number of calls on one object.  The variable last is a history
\* variable: it is written by the final call of a run only (rec below; a call that
\* stops the program is the final one), and holds NoCall until then, so that every
\* store the calls can produce is reached and every call on every such store is
\* recorded once.  Nothing is called on a program that has stopped.
Running == status = "running" /\ statusIt = "running" /\ last = NoCall

Recorded(rec, call) == IF rec THEN call ELSE NoCall

\* size(dim) and dim()
size(k) == d_dimensions[k + 1]
dim == Len(d_dimensions)

\* operator()(args...) = v: the element at indexMap(args...) is written
Write ==
    /\ Running
    /\ \E c \in ValidCoords(d_dimensions), v \in T, rec \in BOOLEAN :
          /\ d_data' = [d_data EXCEPT ![index(c) + 1] = v]
          /\ d_dataIt' = [d_dataIt EXCEPT ![index(c) + 1] = v]
          /\ last' = Recorded(rec, [NoCall EXCEPT !.kind = "write", !.coord = c,
                                       !.val = v, !.off = index(c), !.old = d_data])
    /\ UNCHANGED <<ctorArgs, d_dimensions, status, statusIt>>

\* assign(val): std::fill(d_data.begin(), d_data.end(), val)
AssignAll ==
    /\ Running
    /\ \E v \in T, rec \in BOOLEAN :
          /\ d_data' = [i \in 1 .. Len(d_data) |-> v]
          /\ d_dataIt' = [i \in 1 .. Len(d_dataIt) |-> v]
          /\ last' = Recorded(rec, [NoCall EXCEPT !.kind = "assignAll", !.val = v,
                                       !.old = d_data])
    /\ UNCHANGED <<ctorArgs, d_dimensions, status, statusIt>>

\* assign(ranges, val): Assign<0>::assign(*this, ranges, val), in both variants
AssignCall(kind, ranges, v, build) ==
    \E ri \in {Assign(Start(d_data, kind = "assign"), ranges, v, 0, <<>>, build, "index")},
       rt \in {Assign(Start(d_dataIt, kind = "assign"), ranges, v, 0, <<>>, build,
                      "iterator")},
       rec \in BOOLEAN :
       /\ rec \/ (ri.status = "running" /\ rt.status = "running")
       /\ d_data' = ri.data
       /\ d_dataIt' = rt.data
       /\ status' = ri.status
       /\ statusIt' = rt.status
       /\ last' = Recorded(rec, [NoCall EXCEPT !.kind = kind, !.ranges = ranges,
                                    !.val = v, !.old = d_data, !.fills = ri.fills,
                                    !.fillsIt = rt.fills, !.nfills = ri.nfills,
                                    !.nfillsIt = rt.nfills, !.indexed = ri.indexed,
                                    !.oob = ri.oob, !.oobIt = rt.oob])
       /\ UNCHANGED <<ctorArgs, d_dimensions>>

\* assign(ranges, val) with 0 <= begin_k <= end_k <= dimensions[k] on every axis
AssignRanges ==
    /\ Running
    /\ \E ranges \in ValidRanges(d_dimensions), v \in T, chk \in BOOLEAN :
          AssignCall("assign", ranges, v, [chk |-> chk, rev |-> "noop"])

\* assign(ranges, val) with begin_k > end_k on some axis, all bounds within the sizes
AssignReversed ==
    /\ Running
    /\ \E ranges \in ReversedRanges(d_dimensions), v \in T, build \in Builds :
          AssignCall("reversed", ranges, v, build)

\* data()[i] = v: an element written through the handle data() returns
DataWrite ==
    /\ Running
    /\ \E i \in 0 .. (Len(d_data) - 1), v \in T, rec \in BOOLEAN :
          /\ d_data' = [d_data EXCEPT ![i + 1] = v]
          /\ d_dataIt' = [d_dataIt EXCEPT ![i + 1] = v]
          /\ last' = Recorded(rec, [NoCall EXCEPT !.kind = "dataWrite", !.val = v,
                                       !.off = i, !.old = d_data])
    /\ UNCHANGED <<ctorArgs, d_dimensions, status, statusIt>>

\* data().push_back(v): data() returns the container itself, Container<T> &
DataPushBack ==
    /\ Running
    /\ Len(d_data) < product(d_dimensions) + MaxPush
    /\ \E v \in T, rec \in BOOLEAN :
          /\ d_data' = Append(d_data, v)
          /\ d_dataIt' = Append(d_dataIt, v)
          /\ last' = Recorded(rec, [NoCall EXCEPT !.kind = "pushBack", !.val = v,
                                       !.old = d_data])
    /\ UNCHANGED <<ctorArgs, d_dimensions, status, statusIt>>

\* index(args...): the offset of a coordinate, nothing is written
Index ==
    /\ Running
    /\ \E c \in ValidCoords(d_dimensions) :
          last' = [NoCall EXCEPT !.kind = "index", !.coord = c, !.off = index(c),
                                 !.old = d_data]
    /\ UNCHANGED <<ctorArgs, d_dimensions, d_data, d_dataIt, status, statusIt>>

Next == Write \/ AssignAll \/ AssignRanges \/ DataWrite

Spec == Init /\ [][Next]_vars

\* element writes, uniform fills and range fills with a reversed range
NextRev == Write \/ AssignAll \/ AssignReversed
SpecRev == InitRev /\ [][NextRev]_vars

\* the calls of Spec and a resize of the container through data()
NextHandle == Next \/ DataPushBack
SpecHandle == Init /\ [][NextHandle]_vars

\* index() on arrays of any modelled shape
NextIdx == Index
SpecIdx == InitIdx /\ [][NextIdx]_vars

\* =============================================================== claims
\* What the specification of the repository says, stated over coordinates.

\* stride[k]: the product of the sizes of the axes to the right of axis k (here
\* k counts from 1), 1 for the last axis
Stride(dims, k) == SeqProd(SubSeq(dims, k + 1, Len(dims)))

\* the row-major offset, the sum over k of c[k] * stride[k]
RECURSIVE RowMajorFrom(_, _, _)
RowMajorFrom(dims, c, k) ==
    IF k > Len(dims) THEN 0 ELSE c[k] * Stride(dims, k) + RowMajorFrom(dims, c, k + 1)
RowMajor(dims, c) == RowMajorFrom(dims, c, 1)

\* begin_k <= c_k < end_k on every axis
InBox(c, ranges) == \A k \in 1 .. Len(c) : ranges[k][1] <= c[k] /\ c[k] < ranges[k][2]

Width(ranges, k) == ranges[k][2] - ranges[k][1]
EmptyAxis(ranges, k) == ranges[k][1] = ranges[k][2]
ReversedAxis(ranges, k) == ranges[k][1] > ranges[k][2]
OuterAxes(ranges) == 1 .. (Len(ranges) - 1)

\* the number of combinations of the axes from .. to of a valid range table
RECURSIVE Combos(_, _, _)
Combos(ranges, from, to) ==
    IF from > to THEN 1 ELSE Width(ranges, from) * Combos(ranges, from + 1, to)

\* the place, from 1, of an outer coordinate combination in lexicographic order
RECURSIVE RankFrom(_, _, _)
RankFrom(ranges, o, k) ==
    IF k > Len(o) THEN 0
    ELSE (o[k] - ranges[k][1]) * Combos(ranges, k + 1, Len(o)) + RankFrom(ranges, o, k + 1)
Rank(ranges, o) == 1 + RankFrom(ranges, o, 1)

\* the bulk fills the specification asks of assign(ranges, value), in order
ExpectedFills(dims, ranges) ==
    LET D == Len(dims)
        outer == {o \in ValidCoords(SubSeq(dims, 1, D - 1)) :
                     InBox(o, SubSeq(ranges, 1, D - 1))}
        start(o) == RowMajor(dims, Append(o, ranges[D][1]))
    IN [p \in 1 .. Combos(ranges, 1, D - 1) |->
           LET o == CHOOSE x \in outer : Rank(ranges, x) = p
           IN <<start(o), start(o) + Width(ranges, D)>>]

Returned(kind) == last.kind = kind /\ status = "running" /\ statusIt = "running"

\* C1: after a range fill with valid ranges has returned, every coordinate inside
\* the ranges on all axes holds the value and every other coordinate holds what it
\* held before the call.
C1_RangeFill ==
    Returned("assign") =>
        \A c \in ValidCoords(d_dimensions) :
            At(d_data, c) = IF InBox(c, last.ranges) THEN last.val ELSE At(last.old, c)

\* C1 witness: a fill of two or more axes that changed an element, left an element of
\* another value alone, and ran up to the end of the store.
C1_Witness ==
    /\ Returned("assign")
    /\ Len(d_dimensions) >= 2
    /\ \E c \in ValidCoords(d_dimensions) :
           InBox(c, last.ranges) /\ At(last.old, c) # last.val
    /\ \E c \in ValidCoords(d_dimensions) :
           ~InBox(c, last.ranges) /\ At(d_data, c) # last.val
    /\ Len(d_data) \in last.indexed

\* C2: index() restricted to the valid coordinates is a bijection onto [0, total):
\* the offset of the call is below the product of the sizes, no other valid
\* coordinate has it, and every offset below the product belongs to a coordinate.
C2_Bijection ==
    last.kind = "index" =>
        /\ Len(d_data) = SeqProd(d_dimensions)
        /\ last.off \in 0 .. (SeqProd(d_dimensions) - 1)
        /\ \A c \in ValidCoords(d_dimensions) : index(c) = last.off => c = last.coord
        /\ \A o \in 0 .. (SeqProd(d_dimensions) - 1) :
               \E c \in ValidCoords(d_dimensions) : index(c) = o

\* C2 witness: an offset computed in an array of three axes, two of them of size 2 or
\* more, at a coordinate that is not the origin.
C2_Witness ==
    /\ last.kind = "index"
    /\ Len(d_dimensions) = 3
    /\ Cardinality({k \in 1 .. 3 : d_dimensions[k] >= 2}) >= 2
    /\ Cardinality({k \in 1 .. 3 : last.coord[k] >= 1}) >= 2

\* C3: index() is the sum of index[k] * stride[k], stride[k] being the product of the
\* sizes to the right of axis k; one step along axis k, staying in range, adds
\* stride[k] to the offset, which is 1 for the last axis.
C3_RowMajor ==
    last.kind = "index" =>
        /\ last.off = RowMajor(d_dimensions, last.coord)
        /\ Stride(d_dimensions, Len(d_dimensions)) = 1
        /\ \A k \in 1 .. Len(d_dimensions) :
               last.coord[k] + 1 < d_dimensions[k] =>
                   index([last.coord EXCEPT ![k] = @ + 1])
                       = last.off + Stride(d_dimensions, k)

\* C3 witness: an offset in an array of three axes, taken where a step along the first
\* axis stays in range and the stride of that axis is 4 or more.
C3_Witness ==
    /\ last.kind = "index"
    /\ Len(d_dimensions) = 3
    /\ last.coord[1] + 1 < d_dimensions[1]
    /\ Stride(d_dimensions, 1) >= 4
    /\ last.coord[3] >= 1

\* C4: whatever the public operations did, the use of the handle of data() included,
\* the store is as long as the product of the constructor arguments and size(k) is
\* the k-th argument.
C4_FixedShape ==
    /\ Len(d_data) = SeqProd(ctorArgs)
    /\ dim = Len(ctorArgs)
    /\ \A k \in 0 .. (dim - 1) : size(k) = ctorArgs[k + 1]

\* C5: after v was written through operator() at a valid coordinate, reading that
\* coordinate gives v and every other valid coordinate reads as it did before.
C5_WriteRead ==
    last.kind = "write" =>
        /\ At(d_data, last.coord) = last.val
        /\ \A c \in ValidCoords(d_dimensions) \ {last.coord} :
               At(d_data, c) = At(last.old, c)

\* C5 witness: a write that changed its element, in an array of two or more axes
\* where another element holds the other value.
C5_Witness ==
    /\ last.kind = "write"
    /\ Len(d_dimensions) >= 2
    /\ At(last.old, last.coord) # last.val
    /\ \E c \in ValidCoords(d_dimensions) : c # last.coord /\ At(d_data, c) # last.val

\* C6: a range fill with valid ranges of which one axis has begin = end changes no
\* element of the store, wherever the empty range lies and whatever the other
\* ranges are.
C6_EmptyRange ==
    (last.kind = "assign" /\ \E k \in 1 .. Len(last.ranges) : EmptyAxis(last.ranges, k)) =>
        d_data = last.old /\ d_dataIt = last.old

\* C6 witness: the innermost range is empty at begin = end = the size of the axis, all
\* outer ranges are whole, and the store holds an element that differs from the value.
C6_Witness ==
    /\ last.kind = "assign"
    /\ Len(d_dimensions) >= 2
    /\ last.ranges[Len(d_dimensions)]
           = <<d_dimensions[Len(d_dimensions)], d_dimensions[Len(d_dimensions)]>>
    /\ \A k \in OuterAxes(last.ranges) : last.ranges[k] = <<0, d_dimensions[k]>>
    /\ \E i \in 1 .. Len(d_data) : d_data[i] # last.val

C8_OneFillPerOuter ==
    Returned("assign") =>
        /\ last.fills = ExpectedFills(d_dimensions, last.ranges)
        /\ last.fillsIt = ExpectedFills(d_dimensions, last.ranges)
        /\ last.nfills = Combos(last.ranges, 1, Len(last.ranges) - 1)
        /\ Len(d_dimensions) = 1 => last.nfills = 1

\* C8 witness: three axes and four or more fills over two outer axes that both vary.
C8_Witness ==
    /\ Returned("assign")
    /\ Len(d_dimensions) = 3
    /\ Len(last.fills) >= 4
    /\ Width(last.ranges, 1) >= 2
    /\ Width(last.ranges, 2) >= 2

\* C9: during a range fill with valid ranges every offset handed to operator[] of the
\* store, the begin and the end of each bulk fill, lies in [0, n), n the length of
\* the store.
C9_IndexedInStore ==
    last.kind = "assign" => \A o \in last.indexed : o < Len(last.old)

\* C10: the index-based and the iterator-based variant, given the same calls, behave
\* alike: after every call both programs run and their stores are equal.
C10_VariantsAgree ==
    /\ status = statusIt
    /\ d_data = d_dataIt

====
